---- MODULE Spec2Model ----
(***************************************************************************)
(* FitBodyTrack backend: the Express/Mongoose request handlers for         *)
(* workouts, nutrition entries and progress entries, over the three        *)
(* document collections, and the analytics handlers that read them         *)
(* (overview with streaks and badges, macro percentages, weight forecast). *)
(*                                                                         *)
(* Time is counted in slots; a calendar day is DayLen consecutive slots    *)
(* (the local day that Date.setHours(0,0,0,0) / (23,59,59,999) delimit).   *)
(* Document ids are drawn from one counter (ObjectIds are never reused).   *)
(* Request body fields are JavaScript values: undefined (field absent),    *)
(* a number, NaN or a string.                                              *)
(***************************************************************************)
EXTENDS Integers, Sequences, FiniteSets, TLC

VARIABLES workouts, nutrition, progress, nextId, inflight, last, search

vars == <<workouts, nutrition, progress, nextId, inflight, last, search>>

\* ---------------------------------------------------------------- bounds

\* Documents ever created (over all collections).
MaxId == 2
\* Slots in a calendar day.
DayLen == 2
\* Latest time slot a request may carry as its date.
MaxTime == 3
\* addProgress requests in flight at once in the concurrent specification.
MaxInflight == 2
\* Calendar days the entries of a streak computation lie in.
StreakDays == 3
\* Largest protein, carbohydrate or fat total, in grams.
MaxGrams == 23

\* ------------------------------------------------------- JavaScript values

Undef == [kind |-> "undef"]
NaN == [kind |-> "NaN"]
Null == [kind |-> "null"]
Num(n) == [kind |-> "num", val |-> n]
Str(s) == [kind |-> "str", val |-> s]

IsNum(v) == v.kind = "num"

\* ToBoolean: what `!v` negates.
Truthy(v) ==
  CASE v.kind = "num" -> v.val # 0
    [] v.kind = "str" -> v.val # ""
    [] v.kind = "object" -> TRUE
    [] OTHER -> FALSE

\* a || b
Or(a, b) == IF Truthy(a) THEN a ELSE b

\* A schema path with `min`: unset passes, a number must reach the minimum.
MinOk(v, min) == v.kind \in {"undef", "null"} \/ (IsNum(v) /\ v.val >= min)
MaxOk(v, max) == v.kind \in {"undef", "null"} \/ (IsNum(v) /\ v.val <= max)

Users == {"u1", "u2"}
Ids == 1..MaxId
Times == 0..MaxTime

\* Date.setHours(0, 0, 0, 0) and Date.setHours(23, 59, 59, 999)
startOfDay(t) == t - (t % DayLen)
endOfDay(t) == startOfDay(t) + DayLen - 1
Day(t) == t \div DayLen

\* ---------------------------------------------------------- nutrition view

\* The food-search state of the Nutrition view as useState and useRef set it
\* up: the query typed, the results and whether they are shown, the debounce
\* timer (the query it will search for, or Null) and the queries of the
\* requests awaiting their response.
NoSearch ==
  [searchQuery |-> "", searchResults |-> <<>>, showSearchResults |-> FALSE,
   searchLoading |-> FALSE, searchOffline |-> FALSE, searchTimeout |-> Null,
   pending |-> <<>>]

\* ------------------------------------------------------------- responses

Response(status, message) == [status |-> status, message |-> message]

NoRequest == [op |-> "none"]

\* ---------------------------------------------------- calorie derivation

\* MET_VALUES, each coefficient times ten.
MET_VALUES == [running |-> 98, walking |-> 38, cycling |-> 75, pushups |-> 80]

\* The activity type strings requests carry.
TypeNames == {"running", "Running", "WALKING", "cycling", "pushups", "yoga", "constructor"}

\* String.prototype.toLowerCase on the type strings.
toLowerCase(s) ==
  CASE s = "Running" -> "running"
    [] s = "WALKING" -> "walking"
    [] OTHER -> s

\* Lower-case property names every object literal inherits from
\* Object.prototype: MET_VALUES[name] is then a function or an object.
InheritedKeys == {"constructor", "__proto__"}

\* MET_VALUES[key]: a number, an inherited non-number, or undefined.
metLookup(key) ==
  IF key \in DOMAIN MET_VALUES THEN Num(MET_VALUES[key])
  ELSE IF key \in InheritedKeys THEN [kind |-> "object"]
  ELSE Undef

\* Math.round(x) for the exact quotient x = n / d with d > 0: the nearest
\* integer, halves up.
MathRound(n, d) == (2 * n + d) \div (2 * d)

MathFloor(n, d) == n \div d

\* The product is computed in IEEE-754 doubles as
\* metValue * weight * (duration / 60).  Over the weights (-70, 1, 49, 50,
\* 51, 70, 74, 75, 76, 80) and durations (-60, -30, 1, 2, 30, 59, 60, 137,
\* 138) that requests carry here it rounds like the exact quotient except at
\* these <<coefficient * 10, weight, duration>>, where the exact quotient is
\* a half-integer and the double falls just below it
\* (9.8 * 75 * (138 / 60) = 1690.4999999999998 and
\* 7.5 * 50 * (138 / 60) = 862.4999999999999).
DoubleBelowHalf == {<<98, 75, 138>>, <<75, 50, 138>>}

roundedProductMinutes(m10, w, d) == MathRound(m10 * w * (d % 60), 600)

\* Math.round(metValue * weight * (duration / 60))
roundedProduct(m10, w, d) ==
  MathRound(m10 * w * d, 600) - (IF <<m10, w, d>> \in DoubleBelowHalf THEN 1 ELSE 0)

calculateCaloriesNoRound(type, duration, weight) ==
  LET metValue == metLookup(toLowerCase(type.val))
  IN  IF ~Truthy(metValue) \/ ~Truthy(weight) \/ ~Truthy(duration) THEN Null
      ELSE IF metValue.kind = "object" THEN NaN
      ELSE Num(MathFloor(metValue.val * weight.val * duration.val, 600))

calculateCaloriesDefault(type, duration, weight) ==
  LET key == toLowerCase(type.val)
      metValue == IF key \in DOMAIN MET_VALUES THEN MET_VALUES[key] ELSE 50
  IN  IF ~Truthy(weight) \/ ~Truthy(duration) THEN Null
      ELSE Num(MathRound(metValue * weight.val * duration.val, 600))

\* calculateCalories(type, duration, weight): null, NaN or a number.
calculateCalories(type, duration, weight) ==
  LET metValue == metLookup(toLowerCase(type.val))
  IN  IF ~Truthy(metValue) \/ ~Truthy(weight) \/ ~Truthy(duration) THEN Null
      ELSE IF metValue.kind = "object" THEN NaN
      ELSE Num(roundedProduct(metValue.val, weight.val, duration.val))

\* ------------------------------------------------------------ collections

\* A collection is a function from the ids of its documents to the documents.
Insert(coll, id, doc) == [i \in DOMAIN coll \cup {id} |-> IF i = id THEN doc ELSE coll[i]]
Remove(coll, id) == [i \in DOMAIN coll \ {id} |-> coll[i]]
Empty == [i \in {} |-> 0]

\* ----------------------------------------------------------- progress

\* progressSchema validators run by Progress.create before the save hooks.
progressValid(doc) ==
  /\ IsNum(doc.weight)
  /\ doc.weight.val >= 20
  /\ doc.weight.val <= 500

existingEntryExactDate(coll, userId, date) ==
  {i \in DOMAIN coll : coll[i].userId = userId /\ coll[i].date = date}

existingEntryOpenEnd(coll, userId, date) ==
  {i \in DOMAIN coll :
     /\ coll[i].userId = userId
     /\ coll[i].date >= startOfDay(date)
     /\ coll[i].date < endOfDay(date)}

\* The findOne of progressSchema.pre('save'): the user's entries dated within
\* the calendar day of `date`.
existingEntry(coll, userId, date) ==
  {i \in DOMAIN coll :
     /\ coll[i].userId = userId
     /\ coll[i].date >= startOfDay(date)
     /\ coll[i].date <= endOfDay(date)}

progressDoc(userId, body) ==
  [userId |-> userId, weight |-> body.weight, date |-> body.date]

\* addProgress up to the first query: the response it sends at once, or
\* "pending" when Progress.create has reached the pre-save findOne.
addProgressEarly(userId, body) ==
  IF ~Truthy(body.weight) THEN Response(400, "Please add weight")
  ELSE IF ~progressValid(progressDoc(userId, body)) THEN Response(500, "ValidationError")
  ELSE Response(0, "pending")

DuplicateEntry == Response(500, "Progress entry already exists for this date")

\* addProgress, run to completion.
addProgress(userId, body) ==
  LET early == addProgressEarly(userId, body)
      dup == existingEntry(progress, userId, body.date) # {}
      res == IF early.status # 0 THEN early
             ELSE IF dup THEN DuplicateEntry
             ELSE Response(201, "")
  IN  /\ res.status = 201 => nextId <= MaxId
      /\ progress' = IF res.status = 201
                     THEN Insert(progress, nextId, progressDoc(userId, body))
                     ELSE progress
      /\ nextId' = IF res.status = 201 THEN nextId + 1 ELSE nextId
      /\ last' = [op |-> "addProgress", caller |-> userId, body |-> body, res |-> res]
      /\ UNCHANGED <<workouts, nutrition, inflight, search>>

NotAuthorized == Response(401, "User not authorized")

deleteProgressNoOwnerCheck(userId, id) ==
  LET res == IF id \notin DOMAIN progress THEN Response(400, "Progress entry not found")
             ELSE Response(200, "")
  IN  /\ progress' = IF res.status = 200 THEN Remove(progress, id) ELSE progress
      /\ last' = [op |-> "deleteProgress", caller |-> userId, id |-> id, res |-> res]
      /\ UNCHANGED <<workouts, nutrition, nextId, inflight, search>>

\* deleteProgress
deleteProgress(userId, id) ==
  LET res == IF id \notin DOMAIN progress THEN Response(400, "Progress entry not found")
             ELSE IF progress[id].userId # userId THEN NotAuthorized
             ELSE Response(200, "")
  IN  /\ progress' = IF res.status = 200 THEN Remove(progress, id) ELSE progress
      /\ last' = [op |-> "deleteProgress", caller |-> userId, id |-> id, res |-> res]
      /\ UNCHANGED <<workouts, nutrition, nextId, inflight, search>>

\* ------------------------------------------------------------- workouts

getLatestWeightAnyUser(userId) ==
  LET latest == {i \in DOMAIN progress :
                   \A j \in DOMAIN progress : progress[j].date <= progress[i].date}
  IN  IF DOMAIN progress = {} THEN {Null} ELSE {progress[i].weight : i \in latest}

\* getLatestWeight(userId): the weight of the user's progress entry with the
\* latest date (any of them when several share it), or null.
getLatestWeight(userId) ==
  LET mine == {i \in DOMAIN progress : progress[i].userId = userId}
      latest == {i \in mine : \A j \in mine : progress[j].date <= progress[i].date}
  IN  IF mine = {} THEN {Null} ELSE {progress[i].weight : i \in latest}

\* WorkoutSchema validators run by Workout.create.
workoutValid(doc) ==
  /\ Truthy(doc.type)
  /\ IsNum(doc.duration) /\ doc.duration.val >= 1
  /\ MinOk(doc.weight, 1)
  /\ MinOk(doc.calories, 1)

NoWeightData == Response(400, "NO_WEIGHT_DATA")
CannotCalculate == Response(400, "Cannot auto-calculate calories for this workout type")

\* setWorkout with latestWeight the answer of getLatestWeight: the response
\* and the document created, if any.
setWorkoutResult(userId, body, latestWeight) ==
  LET finalWeight == IF ~Truthy(body.calories) /\ ~Truthy(body.weight)
                     THEN latestWeight ELSE body.weight
      calculatedCalories == calculateCalories(body.type, body.duration, finalWeight)
      finalCalories == IF ~Truthy(body.calories) THEN calculatedCalories ELSE body.calories
      doc == [userId |-> userId, type |-> body.type, duration |-> body.duration,
              weight |-> finalWeight, calories |-> finalCalories, date |-> body.date]
      none == [created |-> FALSE]
  IN  IF ~Truthy(body.type) \/ ~Truthy(body.duration)
        THEN [res |-> Response(400, "Please add type and duration")] @@ none
      ELSE IF ~Truthy(body.calories) /\ ~Truthy(body.weight) /\ ~Truthy(finalWeight)
        THEN [res |-> NoWeightData] @@ none
      ELSE IF ~Truthy(body.calories) /\ ~Truthy(calculatedCalories)
        THEN [res |-> CannotCalculate] @@ none
      ELSE IF ~Truthy(finalCalories)
        THEN [res |-> Response(400, "Please provide calories")] @@ none
      ELSE IF ~workoutValid(doc)
        THEN [res |-> Response(500, "ValidationError")] @@ none
      ELSE [res |-> Response(201, ""), created |-> TRUE, doc |-> doc]

\* setWorkout
setWorkout(userId, body) ==
  \E latestWeight \in getLatestWeight(userId) :
    LET r == setWorkoutResult(userId, body, latestWeight)
    IN  /\ r.created => nextId <= MaxId
        /\ workouts' = IF r.created THEN Insert(workouts, nextId, r.doc) ELSE workouts
        /\ nextId' = IF r.created THEN nextId + 1 ELSE nextId
        /\ last' = [op |-> "setWorkout", caller |-> userId, body |-> body, res |-> r.res]
        /\ UNCHANGED <<nutrition, progress, inflight, search>>

\* The document after findByIdAndUpdate(id, updateData): every field the
\* update carries is set, without running the schema validators.
applyUpdate(doc, updateData) ==
  [userId |-> IF updateData.userId.kind = "undef" THEN doc.userId ELSE updateData.userId.val,
   type |-> IF updateData.type.kind = "undef" THEN doc.type ELSE updateData.type,
   duration |-> IF updateData.duration.kind = "undef" THEN doc.duration ELSE updateData.duration,
   weight |-> IF updateData.weight.kind = "undef" THEN doc.weight ELSE updateData.weight,
   calories |-> IF updateData.calories.kind = "undef" THEN doc.calories ELSE updateData.calories,
   date |-> doc.date]

\* updateData as updateWorkout builds it from the request body.
updateData(workout, body, latestWeight) ==
  IF (Truthy(body.type) \/ Truthy(body.duration) \/ Truthy(body.weight)) /\ ~Truthy(body.calories)
  THEN LET finalType == Or(body.type, workout.type)
           finalDuration == Or(body.duration, workout.duration)
           ownWeight == Or(body.weight, workout.weight)
           finalWeight == IF ~Truthy(ownWeight) THEN latestWeight ELSE ownWeight
           withWeight == IF ~Truthy(ownWeight) /\ Truthy(finalWeight)
                         THEN [body EXCEPT !.weight = finalWeight] ELSE body
           calculatedCalories == calculateCalories(finalType, finalDuration, finalWeight)
       IN  IF Truthy(calculatedCalories)
           THEN [withWeight EXCEPT !.calories = calculatedCalories] ELSE withWeight
  ELSE body

updateWorkoutNoOwnerCheck(userId, id, body) ==
  \E latestWeight \in getLatestWeight(userId) :
    LET res == IF id \notin DOMAIN workouts THEN Response(400, "Workout not found")
               ELSE Response(200, "")
    IN  /\ workouts' = IF res.status = 200
                       THEN [workouts EXCEPT ![id] =
                               applyUpdate(@, updateData(@, body, latestWeight))]
                       ELSE workouts
        /\ last' = [op |-> "updateWorkout", caller |-> userId, id |-> id, body |-> body,
                    res |-> res]
        /\ UNCHANGED <<nutrition, progress, nextId, inflight, search>>

\* updateWorkout
updateWorkout(userId, id, body) ==
  \E latestWeight \in getLatestWeight(userId) :
    LET res == IF id \notin DOMAIN workouts THEN Response(400, "Workout not found")
               ELSE IF workouts[id].userId # userId THEN NotAuthorized
               ELSE Response(200, "")
    IN  /\ workouts' = IF res.status = 200
                       THEN [workouts EXCEPT ![id] =
                               applyUpdate(@, updateData(@, body, latestWeight))]
                       ELSE workouts
        /\ last' = [op |-> "updateWorkout", caller |-> userId, id |-> id, body |-> body,
                    res |-> res]
        /\ UNCHANGED <<nutrition, progress, nextId, inflight, search>>

\* deleteWorkout
deleteWorkout(userId, id) ==
  LET res == IF id \notin DOMAIN workouts THEN Response(400, "Workout not found")
             ELSE IF workouts[id].userId # userId THEN NotAuthorized
             ELSE Response(200, "")
  IN  /\ workouts' = IF res.status = 200 THEN Remove(workouts, id) ELSE workouts
      /\ last' = [op |-> "deleteWorkout", caller |-> userId, id |-> id, res |-> res]
      /\ UNCHANGED <<nutrition, progress, nextId, inflight, search>>

\* ------------------------------------------------------------ nutrition

\* String.prototype.trim on the food labels requests carry.
trim(s) == IF s \in {" ", "  "} THEN "" ELSE s

\* isNaN(x) ? 0 : Math.max(0, Number(x))
validatedMacro(x) == IF IsNum(x) THEN (IF x.val < 0 THEN Num(0) ELSE x) ELSE Num(0)

\* A food label longer than the schema's maxlength of 200 characters.
LongFood == "a label of 201 characters"

\* String.prototype.length of the food labels requests carry.
length(s) ==
  CASE s = "" -> 0
    [] s = " " -> 1
    [] s = LongFood -> 201
    [] OTHER -> 5

\* The pre-save hook of nutritionSchema: whether it logs its warning.  It
\* calls next() in either case.
inconsistentMacros(doc) ==
  LET calculatedCalories == doc.protein.val * 4 + doc.carbs.val * 4 + doc.fat.val * 9
      difference == IF doc.calories.val < calculatedCalories
                    THEN calculatedCalories - doc.calories.val
                    ELSE doc.calories.val - calculatedCalories
  IN  /\ calculatedCalories > 0
      /\ doc.calories.val # 0
      /\ difference * 100 > 20 * doc.calories.val

\* nutritionSchema validators run by Nutrition.create.
nutritionValid(doc) ==
  /\ Truthy(doc.food)
  /\ length(doc.food.val) <= 200
  /\ IsNum(doc.calories) /\ doc.calories.val >= 0 /\ doc.calories.val <= 10000
  /\ \A m \in {doc.protein, doc.carbs, doc.fat} : MinOk(m, 0) /\ MaxOk(m, 1000)

addNutritionBlocking(userId, body) ==
  LET doc == [userId |-> userId, food |-> Str(trim(body.food.val)),
              calories |-> body.calories, protein |-> validatedMacro(body.protein),
              carbs |-> validatedMacro(body.carbs), fat |-> validatedMacro(body.fat),
              date |-> body.date]
      res == IF ~Truthy(body.food) \/ trim(body.food.val) = ""
               THEN Response(400, "Food name is required")
             ELSE IF ~Truthy(body.calories) \/ ~IsNum(body.calories) \/ body.calories.val < 0
               THEN Response(400, "Valid calories value is required")
             ELSE IF ~nutritionValid(doc) \/ inconsistentMacros(doc)
               THEN Response(500, "ValidationError")
             ELSE Response(201, "")
  IN  /\ res.status = 201 => nextId <= MaxId
      /\ nutrition' = IF res.status = 201 THEN Insert(nutrition, nextId, doc) ELSE nutrition
      /\ nextId' = IF res.status = 201 THEN nextId + 1 ELSE nextId
      /\ last' = [op |-> "addNutrition", caller |-> userId, body |-> body, res |-> res,
                  warned |-> FALSE]
      /\ UNCHANGED <<workouts, progress, inflight, search>>

\* addNutrition
addNutrition(userId, body) ==
  LET doc == [userId |-> userId, food |-> Str(trim(body.food.val)),
              calories |-> body.calories, protein |-> validatedMacro(body.protein),
              carbs |-> validatedMacro(body.carbs), fat |-> validatedMacro(body.fat),
              date |-> body.date]
      res == IF ~Truthy(body.food) \/ trim(body.food.val) = ""
               THEN Response(400, "Food name is required")
             ELSE IF ~Truthy(body.calories) \/ ~IsNum(body.calories) \/ body.calories.val < 0
               THEN Response(400, "Valid calories value is required")
             ELSE IF ~nutritionValid(doc) THEN Response(500, "ValidationError")
             ELSE Response(201, "")
  IN  /\ res.status = 201 => nextId <= MaxId
      /\ nutrition' = IF res.status = 201 THEN Insert(nutrition, nextId, doc) ELSE nutrition
      /\ nextId' = IF res.status = 201 THEN nextId + 1 ELSE nextId
      /\ last' = [op |-> "addNutrition", caller |-> userId, body |-> body, res |-> res,
                  warned |-> res.status = 201 /\ inconsistentMacros(doc)]
      /\ UNCHANGED <<workouts, progress, inflight, search>>

\* deleteNutrition
deleteNutrition(userId, id) ==
  LET res == IF id \notin DOMAIN nutrition THEN Response(404, "Nutrition entry not found")
             ELSE IF nutrition[id].userId # userId THEN NotAuthorized
             ELSE Response(200, "")
  IN  /\ nutrition' = IF res.status = 200 THEN Remove(nutrition, id) ELSE nutrition
      /\ last' = [op |-> "deleteNutrition", caller |-> userId, id |-> id, res |-> res]
      /\ UNCHANGED <<workouts, progress, nextId, inflight, search>>

\* ------------------------------------------------------------ food search

Object(v) == [kind |-> "object", val |-> v]

\* What axios.get ends with: a reply carrying data, or an error with a code
\* and, when the database answered, the status of its response.
Reply(data) == [code |-> "", status |-> 200, data |-> data]
Failure(code, status) == [code |-> code, status |-> status, data |-> Undef]

SearchResponse(status, message, offline, results) ==
  [status |-> status, message |-> message, offline |-> offline, results |-> results]

\* .slice(0, 10)
MaxResults == 10

\* The first filter of the products: a name, nutriments and an energy value.
hasCalories(product) ==
  /\ Truthy(product.product_name)
  /\ Len(trim(product.product_name.val)) > 0
  /\ Truthy(product.nutriments)
  /\ \/ Truthy(product.nutriments.val.energy_kcal_100g)
     \/ Truthy(product.nutriments.val.energy_100g)

\* Math.round(nutriments['energy-kcal_100g'] || 0), or the kJ value over
\* 4.184 when that is 0.
productCalories(nutriments) ==
  LET calories == Or(nutriments.energy_kcal_100g, Num(0)).val
  IN  IF calories = 0 /\ Truthy(nutriments.energy_100g)
      THEN MathRound(nutriments.energy_100g.val * 1000, 4184)
      ELSE calories

simplified(product) ==
  [name |-> trim(product.product_name.val),
   calories |-> productCalories(product.nutriments.val),
   protein |-> Or(product.nutriments.val.proteins_100g, Num(0)).val]

simplifiedResults(products) ==
  LET filtered == SelectSeq(products, hasCalories)
      sliced == SubSeq(filtered, 1, IF Len(filtered) < MaxResults THEN Len(filtered) ELSE MaxResults)
      mapped == [k \in DOMAIN sliced |-> simplified(sliced[k])]
  IN  SelectSeq(mapped, LAMBDA item : item.calories > 0)

TimedOut ==
  SearchResponse(408, "Search request timed out. Please try again or enter nutrition data manually.",
                 TRUE, <<>>)
Unavailable ==
  SearchResponse(503, "Food database temporarily unavailable. Please enter nutrition data manually.",
                 TRUE, <<>>)
SearchFailed ==
  SearchResponse(500, "Failed to search food items. Please try again or enter nutrition data manually.",
                 TRUE, <<>>)
NoFoodItems == SearchResponse(404, "No food items found", FALSE, <<>>)

\* The catch block of searchFood.
searchFoodCatch(upstream) ==
  IF upstream.code = "ECONNABORTED" THEN TimedOut
  ELSE IF upstream.status >= 500 THEN Unavailable
  ELSE SearchFailed

\* searchFood: one call of the food database, answered from its outcome.
searchFood(query, upstream) ==
  LET early == IF ~Truthy(query) THEN SearchResponse(400, "Search query is required", FALSE, <<>>)
               ELSE IF Len(query.val) < 2
               THEN SearchResponse(400, "Query must be at least 2 characters", FALSE, <<>>)
               ELSE SearchResponse(0, "", FALSE, <<>>)
      res == IF early.status # 0 THEN early
             ELSE IF upstream.code # "" THEN searchFoodCatch(upstream)
             ELSE IF ~Truthy(upstream.data) \/ ~Truthy(upstream.data.val.products) THEN NoFoodItems
             ELSE SearchResponse(200, "", FALSE, simplifiedResults(upstream.data.val.products.val))
  IN  /\ last' = [op |-> "searchFood", query |-> query,
                  upstream |-> IF early.status # 0 THEN Undef ELSE upstream,
                  calls |-> IF early.status # 0 THEN 0 ELSE 1, res |-> res]
      /\ UNCHANGED <<workouts, nutrition, progress, nextId, inflight, search>>

\* ------------------------------------------------------------ list reads

\* The documents getWorkouts, getNutrition and getProgress answer the caller
\* with (each with its id; the order of the answer aside).
getWorkouts(userId) ==
  {[id |-> i, doc |-> workouts[i]] : i \in {j \in DOMAIN workouts : workouts[j].userId = userId}}

getNutrition(userId) ==
  {[id |-> i, doc |-> nutrition[i]] : i \in {j \in DOMAIN nutrition : nutrition[j].userId = userId}}

getProgress(userId) ==
  {[id |-> i, doc |-> progress[i]] : i \in {j \in DOMAIN progress : progress[j].userId = userId}}

\* -------------------------------------------------------------- analytics

\* The while loop of currentStreak: the days counted from `day` backwards
\* while dateMap has them.
RECURSIVE streakFrom(_, _)
streakFrom(days, day) ==
  IF day \in days THEN 1 + streakFrom(days, day - 1) ELSE 0

currentStreakLenient(docs, now) ==
  LET dateMap == {Day(doc.date) : doc \in docs}
  IN  IF Day(now) \in dateMap THEN streakFrom(dateMap, Day(now))
      ELSE streakFrom(dateMap, Day(now) - 1)

\* currentStreak(docs) called at time `now`: dateMap holds the calendar days
\* of the documents, and the count starts at today.
currentStreak(docs, now) ==
  IF docs = {} THEN 0
  ELSE LET dateMap == {Day(doc.date) : doc \in docs}
       IN  streakFrom(dateMap, Day(now))

\* reduce((sum, doc) => sum + (doc.calories || 0), 0) over the documents
\* `ids` of a collection.
RECURSIVE sumCalories(_, _)
sumCalories(coll, ids) ==
  IF ids = {} THEN 0
  ELSE LET i == CHOOSE j \in ids : TRUE
       IN  (IF Truthy(coll[i].calories) THEN coll[i].calories.val ELSE 0)
             + sumCalories(coll, ids \ {i})

badgesAbove(totalWorkouts, workoutStreak, totalWorkoutCalories, nutritionStreak) ==
  [first_workout |-> totalWorkouts > 1,
   ten_workouts |-> totalWorkouts > 10,
   streak_7 |-> workoutStreak > 7,
   burn_5000 |-> totalWorkoutCalories > 5000,
   log_7 |-> nutritionStreak > 7]

\* The earned flags of the badges of getOverview.
badges(totalWorkouts, workoutStreak, totalWorkoutCalories, nutritionStreak) ==
  [first_workout |-> totalWorkouts >= 1,
   ten_workouts |-> totalWorkouts >= 10,
   streak_7 |-> workoutStreak >= 7,
   burn_5000 |-> totalWorkoutCalories >= 5000,
   log_7 |-> nutritionStreak >= 7]

\* getOverview called at time `now`.
getOverview(userId, now) ==
  LET weekAgo == startOfDay(now - 7 * DayLen)
      mine(coll) == {i \in DOMAIN coll : coll[i].userId = userId}
      today(coll) == {i \in mine(coll) : /\ coll[i].date >= startOfDay(now)
                                          /\ coll[i].date <= endOfDay(now)}
      weeklyWorkouts == {i \in mine(workouts) : workouts[i].date >= weekAgo}
      todayCaloriesIn == sumCalories(nutrition, today(nutrition))
      todayWorkoutCalories == sumCalories(workouts, today(workouts))
      workoutStreak == currentStreak({workouts[i] : i \in mine(workouts)}, now)
      nutritionStreak == currentStreak({nutrition[i] : i \in mine(nutrition)}, now)
  IN  \E currentWeight \in getLatestWeight(userId) :
        /\ last' = [op |-> "getOverview", caller |-> userId, now |-> now,
                    res |-> [weeklyCaloriesBurned |-> sumCalories(workouts, weeklyWorkouts),
                             todayCaloriesIn |-> todayCaloriesIn,
                             currentWeight |-> currentWeight,
                             calorieBalanceToday |-> todayCaloriesIn - todayWorkoutCalories,
                             streaks |-> [workout |-> workoutStreak,
                                          nutrition |-> nutritionStreak],
                             badges |-> badges(Cardinality(mine(workouts)), workoutStreak,
                                               sumCalories(workouts, mine(workouts)),
                                               nutritionStreak)]]
        /\ UNCHANGED <<workouts, nutrition, progress, nextId, inflight, search>>

\* The sum of a numeric field over the documents `ids` of a collection.
RECURSIVE sumField(_, _, _)
sumField(coll, ids, field) ==
  IF ids = {} THEN 0
  ELSE LET i == CHOOSE j \in ids : TRUE
       IN  coll[i][field].val + sumField(coll, ids \ {i}, field)

\* (component / total) * 100 is computed in doubles, and so depends on the
\* ratio alone.  Over components up to 25 with totals up to 75, and over the
\* sums of entries of 23 and 17 grams, it rounds like the exact quotient
\* except at these ratios <<component, total>>, where the exact value is a
\* half-integer and the double falls just below it
\* ((23 / 40) * 100 = 57.49999999999999).
PercentBelowHalf == {<<23, 40>>}

percentageFloor(component, total) ==
  IF total = 0 THEN NaN ELSE Num(MathFloor(100 * component, total))

\* Math.round((component / total) * 100); 0 / 0 is NaN.
percentage(component, total) ==
  IF total = 0 THEN NaN
  ELSE Num(MathRound(100 * component, total)
           - (IF \E r \in PercentBelowHalf : component * r[2] = total * r[1]
              THEN 1 ELSE 0))

NoMacros == [protein |-> Num(0), carbs |-> Num(0), fat |-> Num(0)]

macroPercentagesUnguarded(protein, carbs, fat) ==
  LET total == protein + carbs + fat
  IN  [protein |-> percentage(protein, total), carbs |-> percentage(carbs, total),
       fat |-> percentage(fat, total)]

\* The macroPercentages virtual of the nutrition schema, calculateMacroPercentages
\* of the client, and the same computation at the end of getMacrosData.
macroPercentages(protein, carbs, fat) ==
  LET total == protein + carbs + fat
  IN  IF total = 0 THEN NoMacros
      ELSE [protein |-> percentage(protein, total), carbs |-> percentage(carbs, total),
            fat |-> percentage(fat, total)]

\* getMacrosData called at time `now`: the caller's entries dated within the
\* last seven days are aggregated; without any the answer is all zeros.
getMacrosData(userId, now) ==
  LET matched == {i \in DOMAIN nutrition :
                    /\ nutrition[i].userId = userId
                    /\ nutrition[i].date >= now - 7 * DayLen}
      res == IF matched = {} THEN NoMacros
             ELSE macroPercentages(sumField(nutrition, matched, "protein"),
                                   sumField(nutrition, matched, "carbs"),
                                   sumField(nutrition, matched, "fat"))
  IN  /\ last' = [op |-> "getMacrosData", caller |-> userId, now |-> now, res |-> res]
      /\ UNCHANGED <<workouts, nutrition, progress, nextId, inflight, search>>

sumsSameX(weightData, count) ==
  [sumX |-> count, sumY |-> 0, sumXY |-> 0, sumX2 |-> count]

\* The sums of getForecast's forEach after the first `count` entries of
\* weightData (the weights in ascending date order): x is the zero-based
\* index of an entry and y its weight.
RECURSIVE sums(_, _)
sums(weightData, count) ==
  IF count = 0 THEN [sumX |-> 0, sumY |-> 0, sumXY |-> 0, sumX2 |-> 0]
  ELSE LET before == sums(weightData, count - 1)
           x == count - 1
           y == weightData[count]
       IN  [sumX |-> before.sumX + x, sumY |-> before.sumY + y,
            sumXY |-> before.sumXY + x * y, sumX2 |-> before.sumX2 + x * x]

\* A quotient of two integers, kept exact; the divisor is never negative
\* here, and a divisor of 0 stands for JavaScript's NaN or Infinity.
Quotient(num, den) == [num |-> num, den |-> den]
scaled(k, q) == [q EXCEPT !.num = k * q.num]
Abs(n) == IF n < 0 THEN -n ELSE n

slopeThroughOrigin(weightData) ==
  LET s == sums(weightData, Len(weightData))
  IN  Quotient(s.sumXY, s.sumX2)

\* The slope of the regression line through the points <<index, weight>>.
slope(weightData) ==
  LET n == Len(weightData)
      s == sums(weightData, n)
  IN  Quotient(n * s.sumXY - s.sumX * s.sumY, n * s.sumX2 - s.sumX * s.sumX)

\* Number.prototype.toFixed: q to `digits` decimals, as the count of units
\* of the last decimal (halves away from zero).
toFixed(q, digits) ==
  LET scale == IF digits = 1 THEN 10 ELSE 100
  IN  IF q.den = 0 THEN NaN
      ELSE IF q.num < 0 THEN Num(-MathRound(scale * (-q.num), q.den))
      ELSE Num(MathRound(scale * q.num, q.den))

belowHalf(q) == q.den > 0 /\ 2 * Abs(q.num) < q.den

\* Math.abs(q) < 0.1
belowTenth(q) == q.den > 0 /\ 10 * Abs(q.num) < q.den

\* q > 0
isPositive(q) == q.num > 0

NeedTwoEntries ==
  [prediction |-> Null, message |-> "Need at least 2 weight entries to generate forecast"]

\* The answer of getForecast for the weights weightData in ascending date
\* order, each an integer count of 1/perKg kilograms: the insufficient-data
\* answer, or the trends (in hundredths of a kilogram) with the message (its
\* amount in tenths of a kilogram).
forecast(weightData, perKg) ==
  IF Len(weightData) < 2 THEN NeedTwoEntries
  ELSE LET perDay == slope(weightData)
           perDayKg == Quotient(perDay.num, perDay.den * perKg)
           weeklyChange == scaled(7, perDayKg)
           monthlyChange == scaled(30, perDayKg)
           amount == toFixed(Quotient(Abs(monthlyChange.num), monthlyChange.den), 1)
       IN  [currentWeight |-> weightData[Len(weightData)],
            weeklyTrend |-> toFixed(weeklyChange, 2),
            monthlyTrend |-> toFixed(monthlyChange, 2),
            message |-> IF belowTenth(weeklyChange) THEN [trend |-> "stable"]
                        ELSE IF isPositive(weeklyChange)
                          THEN [trend |-> "gain", amount |-> amount]
                        ELSE [trend |-> "lose", amount |-> amount],
            dataPoints |-> Len(weightData)]

\* The ids `ids` of a collection in ascending date order, every order that
\* sort({ date: 1 }) may give entries of equal dates.
sortedByDate(coll, ids) ==
  {order \in [1..Cardinality(ids) -> ids] :
     /\ \A i, j \in DOMAIN order : i # j => order[i] # order[j]
     /\ \A i, j \in DOMAIN order : i < j => coll[order[i]].date <= coll[order[j]].date}

getForecastAllEntries(userId, now) ==
  LET found == {i \in DOMAIN progress : progress[i].userId = userId}
  IN  \E order \in sortedByDate(progress, found) :
        LET weightData == [k \in DOMAIN order |-> progress[order[k]].weight.val]
        IN  /\ last' = [op |-> "getForecast", caller |-> userId, now |-> now,
                        res |-> forecast(weightData, 1)]
            /\ UNCHANGED <<workouts, nutrition, progress, nextId, inflight, search>>

\* getForecast called at time `now`, over the caller's entries dated within
\* the last thirty days.
getForecast(userId, now) ==
  LET found == {i \in DOMAIN progress :
                  progress[i].userId = userId /\ progress[i].date >= now - 30 * DayLen}
  IN  \E order \in sortedByDate(progress, found) :
        LET weightData == [k \in DOMAIN order |-> progress[order[k]].weight.val]
        IN  /\ last' = [op |-> "getForecast", caller |-> userId, now |-> now,
                        res |-> forecast(weightData, 1)]
            /\ UNCHANGED <<workouts, nutrition, progress, nextId, inflight, search>>

\* ---------------------------------------------------------- daily summary

\* getDailySummary: startDate is the instant the date parameter names,
\* endDate the end of that instant's day.
getDailySummary(userId, date) ==
  LET startDate == date
      endDate == endOfDay(date)
      found == {i \in DOMAIN nutrition :
                  /\ nutrition[i].userId = userId
                  /\ nutrition[i].date >= startDate
                  /\ nutrition[i].date <= endDate}
      summary == [status |-> 200,
                  calories |-> sumField(nutrition, found, "calories"),
                  protein |-> sumField(nutrition, found, "protein"),
                  carbs |-> sumField(nutrition, found, "carbs"),
                  fat |-> sumField(nutrition, found, "fat"),
                  entries |-> Cardinality(found)]
  IN  /\ last' = [op |-> "getDailySummary", caller |-> userId, date |-> date, res |-> summary]
      /\ UNCHANGED <<workouts, nutrition, progress, nextId, inflight, search>>

\* ---------------------------------------------------------- list requests

\* The ids `ids` of a collection in descending date order, every order that
\* sort({ date: -1 }) may give entries of equal dates.
sortedByDateDescending(coll, ids) ==
  {order \in [1..Cardinality(ids) -> ids] :
     /\ \A i, j \in DOMAIN order : i # j => order[i] # order[j]
     /\ \A i, j \in DOMAIN order : i < j => coll[order[i]].date >= coll[order[j]].date}

\* The answer of a list request: the documents in the order found.
listed(coll, order) ==
  [status |-> 200, list |-> [k \in DOMAIN order |-> [id |-> order[k], doc |-> coll[order[k]]]]]

\* A date string naming the time slot t.
DateString(t) == [kind |-> "date", val |-> t]

\* GET /api/workouts
getWorkoutsRequest(userId) ==
  LET found == {i \in DOMAIN workouts : workouts[i].userId = userId}
  IN  \E order \in sortedByDateDescending(workouts, found) :
        /\ last' = [op |-> "getWorkouts", caller |-> userId, date |-> Undef,
                    res |-> listed(workouts, order)]
        /\ UNCHANGED <<workouts, nutrition, progress, nextId, inflight, search>>

\* GET /api/progress
getProgressRequest(userId) ==
  LET found == {i \in DOMAIN progress : progress[i].userId = userId}
  IN  \E order \in sortedByDateDescending(progress, found) :
        /\ last' = [op |-> "getProgress", caller |-> userId, date |-> Undef,
                    res |-> listed(progress, order)]
        /\ UNCHANGED <<workouts, nutrition, progress, nextId, inflight, search>>

\* GET /api/nutrition, with or without the date parameter: with it,
\* startDate is the instant the parameter names and endDate the end of that
\* instant's day.
getNutritionRequest(userId, date) ==
  LET found == {i \in DOMAIN nutrition :
                  /\ nutrition[i].userId = userId
                  /\ date # Undef => /\ nutrition[i].date >= date.val
                                     /\ nutrition[i].date <= endOfDay(date.val)}
  IN  \E order \in sortedByDateDescending(nutrition, found) :
        /\ last' = [op |-> "getNutrition", caller |-> userId, date |-> date,
                    res |-> listed(nutrition, order)]
        /\ UNCHANGED <<workouts, nutrition, progress, nextId, inflight, search>>

\* ------------------------------------------------- food search in the view

\* Requests of the view awaiting their response at once.
MaxPending == 2

\* handleSearchInputChange: the input's value becomes the query and the
\* debounce timer is cleared, then set again for a query of 2 characters or
\* more; a shorter query clears the results.
handleSearchInputChange(query) ==
  /\ search' = IF Len(query) >= 2
               THEN [search EXCEPT !.searchQuery = query, !.searchTimeout = Str(query)]
               ELSE [search EXCEPT !.searchQuery = query, !.searchTimeout = Null,
                                   !.searchResults = <<>>, !.showSearchResults = FALSE,
                                   !.searchOffline = FALSE]
  /\ last' = [op |-> "handleSearchInputChange", query |-> query]
  /\ UNCHANGED <<workouts, nutrition, progress, nextId, inflight>>

\* The debounce timer fires after 300 ms: searchFood(query) up to its await.
searchFoodStart ==
  /\ search.searchTimeout # Null
  /\ LET query == search.searchTimeout.val
     IN  IF trim(query) = "" \/ Len(query) < 2
         THEN search' = [search EXCEPT !.searchTimeout = Null, !.searchResults = <<>>,
                                       !.showSearchResults = FALSE, !.searchOffline = FALSE]
         ELSE /\ Len(search.pending) < MaxPending
              /\ search' = [search EXCEPT !.searchTimeout = Null, !.searchLoading = TRUE,
                                          !.searchOffline = FALSE,
                                          !.pending = Append(@, query)]
  /\ last' = [op |-> "searchFood", query |-> search.searchTimeout.val]
  /\ UNCHANGED <<workouts, nutrition, progress, nextId, inflight>>

\* pending without its k-th request.
answered(pending, k) ==
  [i \in 1..(Len(pending) - 1) |-> IF i < k THEN pending[i] ELSE pending[i + 1]]

\* The response of the k-th pending request arrives, with the items found
\* for its query (here one item, named after the query) or as an error:
\* searchFood from its await on.
searchFoodResponse(k, ok) ==
  /\ k \in DOMAIN search.pending
  /\ search' = IF ok
               THEN [search EXCEPT !.searchResults = <<search.pending[k]>>,
                                   !.showSearchResults = TRUE, !.searchLoading = FALSE,
                                   !.pending = answered(@, k)]
               ELSE [search EXCEPT !.searchResults = <<>>, !.showSearchResults = TRUE,
                                   !.searchOffline = TRUE, !.searchLoading = FALSE,
                                   !.pending = answered(@, k)]
  /\ last' = [op |-> "searchFoodResponse", query |-> search.pending[k], ok |-> ok]
  /\ UNCHANGED <<workouts, nutrition, progress, nextId, inflight>>

\* ------------------------------------------------------- calories per day

\* getCaloriesData called at time `now`: the records dated from a week before
\* now on are grouped by calendar day, and the answer holds the seven days
\* up to today, each with the totals of its group or 0.
getCaloriesData(userId, now) ==
  LET weekAgo == now - 7 * DayLen
      matched(coll) == {i \in DOMAIN coll : coll[i].userId = userId /\ coll[i].date >= weekAgo}
      group(coll, day) == {i \in matched(coll) : Day(coll[i].date) = day}
      result == [k \in 1..7 |->
                   LET day == Day(now) - (7 - k)
                   IN  [day |-> day,
                        burned |-> sumCalories(workouts, group(workouts, day)),
                        consumed |-> sumCalories(nutrition, group(nutrition, day))]]
  IN  /\ last' = [op |-> "getCaloriesData", caller |-> userId, now |-> now, res |-> result]
      /\ UNCHANGED <<workouts, nutrition, progress, nextId, inflight, search>>

\* ------------------------------------------------- concurrent addProgress

Idle == [pc |-> "idle"]

Busy == {s \in DOMAIN inflight : inflight[s].pc # "idle"}

\* addProgress from the request to its first await: it answers at once, or
\* Progress.create has issued the findOne of the pre-save hook.
addProgressStart(s, userId, body) ==
  LET early == addProgressEarly(userId, body)
  IN  /\ inflight[s].pc = "idle"
      /\ IF early.status # 0
         THEN /\ last' = [op |-> "addProgress", caller |-> userId, body |-> body,
                          res |-> early]
              /\ UNCHANGED inflight
         ELSE /\ nextId + Cardinality(Busy) <= MaxId
              /\ inflight' = [inflight EXCEPT ![s] =
                                [pc |-> "findOne", caller |-> userId, body |-> body]]
              /\ UNCHANGED last
      /\ UNCHANGED <<workouts, nutrition, progress, nextId, search>>

\* The store answers the findOne: the hook fails the save, or lets it go on.
addProgressFindOne(s) ==
  LET r == inflight[s]
  IN  /\ r.pc = "findOne"
      /\ IF existingEntry(progress, r.caller, r.body.date) # {}
         THEN /\ inflight' = [inflight EXCEPT ![s] = Idle]
              /\ last' = [op |-> "addProgress", caller |-> r.caller, body |-> r.body,
                          res |-> DuplicateEntry]
         ELSE /\ inflight' = [inflight EXCEPT ![s] = [r EXCEPT !.pc = "insert"]]
              /\ UNCHANGED last
      /\ UNCHANGED <<workouts, nutrition, progress, nextId, search>>

addProgressInsertUnique(s) ==
  LET r == inflight[s]
      taken == \E i \in DOMAIN progress :
                 /\ progress[i].userId = r.caller
                 /\ Day(progress[i].date) = Day(r.body.date)
  IN  /\ r.pc = "insert"
      /\ progress' = IF taken THEN progress
                     ELSE Insert(progress, nextId, progressDoc(r.caller, r.body))
      /\ nextId' = IF taken THEN nextId ELSE nextId + 1
      /\ inflight' = [inflight EXCEPT ![s] = Idle]
      /\ last' = [op |-> "addProgress", caller |-> r.caller, body |-> r.body,
                  res |-> IF taken THEN Response(500, "E11000 duplicate key")
                          ELSE Response(201, "")]
      /\ UNCHANGED <<workouts, nutrition, search>>

\* The store inserts the document (the indexes of progressSchema are not
\* unique) and addProgress answers 201.
addProgressInsert(s) ==
  LET r == inflight[s]
  IN  /\ r.pc = "insert"
      /\ progress' = Insert(progress, nextId, progressDoc(r.caller, r.body))
      /\ nextId' = nextId + 1
      /\ inflight' = [inflight EXCEPT ![s] = Idle]
      /\ last' = [op |-> "addProgress", caller |-> r.caller, body |-> r.body,
                  res |-> Response(201, "")]
      /\ UNCHANGED <<workouts, nutrition, search>>

\* -------------------------------------------------------- derivation step

\* calculateCalories applied to the inputs drawn at the start.
derive ==
  /\ last.op = "input"
  /\ last' = [op |-> "calculateCalories", type |-> last.type, duration |-> last.duration,
              weight |-> last.weight,
              result |-> calculateCalories(last.type, last.duration, last.weight)]
  /\ UNCHANGED <<workouts, nutrition, progress, nextId, inflight, search>>

\* ---------------------------------------------------------- specifications

Init ==
  /\ workouts = Empty
  /\ nutrition = Empty
  /\ progress = Empty
  /\ nextId = 1
  /\ inflight = [s \in 1..MaxInflight |-> Idle]
  /\ search = NoSearch
  /\ last = NoRequest

\* Request bodies of the specification of all handlers.
ProgressBodies == [weight : {Num(70)}, date : {0, MaxTime}]

WorkoutBodies ==
  [type : {Str("running")}, duration : {Num(30)}, weight : {Undef},
   calories : {Undef, Num(250)}, date : {0}]

UpdateBodies ==
  [type : {Undef, Str("yoga")}, duration : {Undef}, weight : {Undef},
   calories : {Undef}, userId : {Undef} \cup {Str(u) : u \in Users}]

NutritionBodies ==
  [food : {Str("apple")}, calories : {Num(500)}, protein : {Undef}, carbs : {Undef},
   fat : {Undef}, date : {0}]

\* Every handler, each request run to completion.
Next ==
  \/ \E u \in Users, b \in ProgressBodies : addProgress(u, b)
  \/ \E u \in Users, i \in Ids : deleteProgress(u, i)
  \/ \E u \in Users, b \in WorkoutBodies : setWorkout(u, b)
  \/ \E u \in Users, i \in Ids, b \in UpdateBodies : updateWorkout(u, i, b)
  \/ \E u \in Users, i \in Ids : deleteWorkout(u, i)
  \/ \E u \in Users, b \in NutritionBodies : addNutrition(u, b)
  \/ \E u \in Users, i \in Ids : deleteNutrition(u, i)

Spec == Init /\ [][Next]_vars

\* The progress handlers alone, each request run to completion.
DayProgressBodies == [weight : {Undef, Num(10), Num(70), Num(80)}, date : Times]

NextProgress ==
  \/ \E u \in Users, b \in DayProgressBodies : addProgress(u, b)
  \/ \E u \in Users, i \in Ids : deleteProgress(u, i)

SpecProgress == Init /\ [][NextProgress]_vars

\* addProgress requests interleaved at their awaits.
ConcProgressBodies == [weight : {Undef, Num(70)}, date : Times]

NextConc ==
  \/ \E s \in 1..MaxInflight, u \in Users, b \in ConcProgressBodies :
       addProgressStart(s, u, b)
  \/ \E s \in 1..MaxInflight : addProgressFindOne(s)
  \/ \E s \in 1..MaxInflight : addProgressInsert(s)

SpecConc == Init /\ [][NextConc]_vars

\* Calorie derivation: calculateCalories on drawn inputs, and setWorkout with
\* the progress entries it reads the latest weight from.
DeriveDurations == {Undef, Num(0), Num(-30), Num(1), Num(30), Num(138)}
DeriveWeights == {Undef, Num(0), Num(-70), Num(1), Num(50), Num(75)}

DeriveInputs ==
  [op : {"input"}, type : {Str(t) : t \in TypeNames}, duration : DeriveDurations,
   weight : DeriveWeights]

DeriveProgressBodies == [weight : {Num(75)}, date : {0}]

DeriveWorkoutBodies ==
  [type : {Str("Running"), Str("yoga"), Str("constructor")},
   duration : {Num(0), Num(138)}, weight : {Undef, Num(70)},
   calories : {Undef, Num(250)}, date : {0}]

InitDerive ==
  /\ workouts = Empty
  /\ nutrition = Empty
  /\ progress = Empty
  /\ nextId = 1
  /\ inflight = [s \in 1..MaxInflight |-> Idle]
  /\ search = NoSearch
  /\ last \in DeriveInputs

NextDerive ==
  \/ derive
  \/ \E u \in Users, b \in DeriveProgressBodies : addProgress(u, b)
  \/ \E u \in Users, b \in DeriveWorkoutBodies : setWorkout(u, b)

SpecDerive == InitDerive /\ [][NextDerive]_vars

\* Calorie derivation on two inputs of one type, to compare the values.
MonoDurations == {Num(1), Num(2), Num(30), Num(60), Num(137), Num(138)}
MonoWeights == {Num(1), Num(50), Num(74), Num(75), Num(76)}

MonoInputs ==
  [op : {"inputs"}, type : {Str(t) : t \in TypeNames},
   first : [duration : MonoDurations, weight : MonoWeights],
   second : [duration : MonoDurations, weight : MonoWeights]]

\* calculateCalories applied to each of the two inputs drawn at the start.
deriveBoth ==
  /\ last.op = "inputs"
  /\ last' = [op |-> "calculateCaloriesTwice", type |-> last.type,
              first |-> last.first @@
                [result |-> calculateCalories(last.type, last.first.duration,
                                              last.first.weight)],
              second |-> last.second @@
                [result |-> calculateCalories(last.type, last.second.duration,
                                              last.second.weight)]]
  /\ UNCHANGED <<workouts, nutrition, progress, nextId, inflight, search>>

InitMono ==
  /\ workouts = Empty
  /\ nutrition = Empty
  /\ progress = Empty
  /\ nextId = 1
  /\ inflight = [s \in 1..MaxInflight |-> Idle]
  /\ search = NoSearch
  /\ last \in MonoInputs

NextMono == deriveBoth

SpecMono == InitMono /\ [][NextMono]_vars

\* setWorkout over progress collections that earlier requests have filled:
\* up to two entries (ids of earlier draws of the counter), of either user.
LatestSeedIds == {-1, 0}

LatestSeeds ==
  UNION {[ids -> [userId : Users, weight : {Num(50), Num(75)}, date : {0, MaxTime}]] :
           ids \in SUBSET LatestSeedIds}

LatestProgressBodies == [weight : {Num(74)}, date : {1}]

LatestWorkoutBodies ==
  [type : {Str("running"), Str("yoga")}, duration : {Num(138)}, weight : {Undef},
   calories : {Undef}, date : {0}]

InitLatest ==
  /\ workouts = Empty
  /\ nutrition = Empty
  /\ progress \in LatestSeeds
  /\ nextId = 1
  /\ inflight = [s \in 1..MaxInflight |-> Idle]
  /\ search = NoSearch
  /\ last = NoRequest

NextLatest ==
  \/ \E u \in Users, b \in LatestProgressBodies : addProgress(u, b)
  \/ \E u \in Users, i \in LatestSeedIds \cup Ids : deleteProgress(u, i)
  \/ \E u \in Users, b \in LatestWorkoutBodies : setWorkout(u, b)

SpecLatest == InitLatest /\ [][NextLatest]_vars

\* currentStreak on drawn documents, called at a drawn time.
StreakTimes == 0..(StreakDays * DayLen - 1)

StreakInputs == [op : {"docs"}, dates : SUBSET StreakTimes, now : StreakTimes]

streak ==
  /\ last.op = "docs"
  /\ last' = [op |-> "currentStreak", dates |-> last.dates, now |-> last.now,
              result |-> currentStreak({[date |-> t] : t \in last.dates}, last.now)]
  /\ UNCHANGED <<workouts, nutrition, progress, nextId, inflight, search>>

InitStreak ==
  /\ workouts = Empty
  /\ nutrition = Empty
  /\ progress = Empty
  /\ nextId = 1
  /\ inflight = [s \in 1..MaxInflight |-> Idle]
  /\ search = NoSearch
  /\ last \in StreakInputs

NextStreak == streak

SpecStreak == InitStreak /\ [][NextStreak]_vars

\* The macro percentages of drawn gram totals.
MacroInputs ==
  [op : {"grams"}, protein : 0..MaxGrams, carbs : 0..MaxGrams, fat : 0..MaxGrams]

macros ==
  /\ last.op = "grams"
  /\ last' = [op |-> "macroPercentages", protein |-> last.protein, carbs |-> last.carbs,
              fat |-> last.fat,
              result |-> macroPercentages(last.protein, last.carbs, last.fat)]
  /\ UNCHANGED <<workouts, nutrition, progress, nextId, inflight, search>>

InitMacros ==
  /\ workouts = Empty
  /\ nutrition = Empty
  /\ progress = Empty
  /\ nextId = 1
  /\ inflight = [s \in 1..MaxInflight |-> Idle]
  /\ search = NoSearch
  /\ last \in MacroInputs

NextMacros == macros

SpecMacros == InitMacros /\ [][NextMacros]_vars

\* getMacrosData over the nutrition entries the handlers store, called now,
\* a week and a slot later, or once every entry is older than a week.
MacroNutritionBodies ==
  [food : {Str("apple")}, calories : {Num(500)}, protein : {Undef, Num(23)},
   carbs : {Num(0), Num(17)}, fat : {Undef}, date : {0, MaxTime}]

MacroNows == {MaxTime, 7 * DayLen + 1, 7 * DayLen + MaxTime + 1}

NextMacrosData ==
  \/ \E u \in Users, b \in MacroNutritionBodies : addNutrition(u, b)
  \/ \E u \in Users, i \in Ids : deleteNutrition(u, i)
  \/ \E u \in Users, now \in MacroNows : getMacrosData(u, now)

SpecMacrosData == Init /\ [][NextMacrosData]_vars

\* getForecast over the progress entries the handlers store; two entries
\* of the first user may be there from earlier requests.  It is called now,
\* thirty days and a slot later, or once every entry is older than that.
ForecastSeedIds == {-1, 0}

ForecastSeeds ==
  UNION {[ids -> [userId : {"u1"}, weight : {Num(70), Num(73)}, date : {0, MaxTime}]] :
           ids \in SUBSET ForecastSeedIds}

ForecastProgressBodies == [weight : {Num(70), Num(72)}, date : {1, 5 * DayLen}]

ForecastNows == {5 * DayLen, 30 * DayLen + 1, 35 * DayLen + 1}

InitForecast ==
  /\ workouts = Empty
  /\ nutrition = Empty
  /\ progress \in ForecastSeeds
  /\ nextId = 1
  /\ inflight = [s \in 1..MaxInflight |-> Idle]
  /\ search = NoSearch
  /\ last = NoRequest

NextForecast ==
  \/ \E u \in Users, b \in ForecastProgressBodies : addProgress(u, b)
  \/ \E u \in Users, i \in ForecastSeedIds \cup Ids : deleteProgress(u, i)
  \/ \E u \in Users, now \in ForecastNows : getForecast(u, now)

SpecForecast == InitForecast /\ [][NextForecast]_vars

\* The forecast of drawn weights, in tenths of a kilogram and already in
\* date order.
MaxSamples == 4

TrendWeights == {700, 701, 702, 720}

TrendInputs ==
  [op : {"weights"}, weightData : UNION {[1..n -> TrendWeights] : n \in 0..MaxSamples}]

trend ==
  /\ last.op = "weights"
  /\ last' = [op |-> "forecast", weightData |-> last.weightData,
              slope |-> IF Len(last.weightData) < 2 THEN Null
                        ELSE slope(last.weightData),
              res |-> forecast(last.weightData, 10)]
  /\ UNCHANGED <<workouts, nutrition, progress, nextId, inflight, search>>

InitTrend ==
  /\ workouts = Empty
  /\ nutrition = Empty
  /\ progress = Empty
  /\ nextId = 1
  /\ inflight = [s \in 1..MaxInflight |-> Idle]
  /\ search = NoSearch
  /\ last \in TrendInputs

NextTrend == trend

SpecTrend == InitTrend /\ [][NextTrend]_vars

\* getOverview for a first user who, by earlier requests, holds ten workouts
\* of 500 calories over the seven days up to today and a nutrition entry on
\* each of those days, and a second user who holds nothing and logs no
\* nutrition.  The workout and the nutrition entry of today have the ids 0
\* and -10.
BadgeToday == 6 * DayLen

BadgeWorkoutSeeds ==
  [i \in -9..0 |->
     [userId |-> "u1", type |-> Str("running"), duration |-> Num(60), weight |-> Undef,
      calories |-> Num(500), date |-> (IF i < -6 THEN 0 ELSE 6 + i) * DayLen]]

BadgeNutritionSeeds ==
  [i \in -16..-10 |->
     [userId |-> "u1", food |-> Str("apple"), calories |-> Num(500), protein |-> Num(0),
      carbs |-> Num(0), fat |-> Num(0), date |-> (16 + i) * DayLen]]

BadgeWorkoutBodies ==
  [type : {Str("running")}, duration : {Num(60)}, weight : {Undef},
   calories : {Num(250), Num(500)}, date : {BadgeToday}]

BadgeUpdateBodies ==
  [type : {Undef}, duration : {Undef}, weight : {Undef}, calories : {Num(250)},
   userId : {Undef}]
  \cup [type : {Undef}, duration : {Undef}, weight : {Undef}, calories : {Undef},
        userId : {Str("u2")}]

BadgeNutritionBodies ==
  [food : {Str("apple")}, calories : {Num(500)}, protein : {Undef}, carbs : {Undef},
   fat : {Undef}, date : {BadgeToday}]

\* The calls come today or on the day after.
BadgeNows == {BadgeToday + DayLen - 1, BadgeToday + DayLen}

InitBadges ==
  /\ workouts = BadgeWorkoutSeeds
  /\ nutrition = BadgeNutritionSeeds
  /\ progress = Empty
  /\ nextId = 1
  /\ inflight = [s \in 1..MaxInflight |-> Idle]
  /\ search = NoSearch
  /\ last = NoRequest

NextBadges ==
  \/ \E u \in Users, b \in BadgeWorkoutBodies : setWorkout(u, b)
  \/ \E u \in Users, i \in {0} \cup Ids, b \in BadgeUpdateBodies : updateWorkout(u, i, b)
  \/ \E u \in Users, i \in {0} \cup Ids : deleteWorkout(u, i)
  \/ \E b \in BadgeNutritionBodies : addNutrition("u1", b)
  \/ \E i \in {-10} \cup Ids : deleteNutrition("u1", i)
  \/ \E u \in Users, now \in BadgeNows : getOverview(u, now)

SpecBadges == InitBadges /\ [][NextBadges]_vars

\* The nutrition handlers over labels, calories and protein at and around
\* the limits of the schema, the entries being the first user's.
EntryNutritionBodies ==
  [food : {Str("apple"), Str(" "), Str(LongFood)},
   calories : {Undef, Num(-1), Num(0), Num(1), Num(400), Num(10000), Num(10001)},
   protein : {Undef, Num(100)}, carbs : {Undef}, fat : {Undef}, date : {0}]

NextNutrition ==
  \/ \E b \in EntryNutritionBodies : addNutrition("u1", b)
  \/ \E u \in Users, i \in Ids : deleteNutrition(u, i)

SpecNutrition == Init /\ [][NextNutrition]_vars

\* setWorkout and updateWorkout by the first user, with the progress entry
\* the latest weight is read from.
EditProgressBodies == [weight : {Num(75)}, date : {0}]

EditWorkoutBodies ==
  [type : {Str("running")}, duration : {Num(30)}, weight : {Undef, Num(70)},
   calories : {Num(250)}, date : {0}]

EditUpdateBodies ==
  [type : {Undef, Str("cycling")}, duration : {Undef, Num(0), Num(-30)},
   weight : {Undef}, calories : {Undef}, userId : {Undef}]

NextEdit ==
  \/ \E b \in EditProgressBodies : addProgress("u1", b)
  \/ \E b \in EditWorkoutBodies : setWorkout("u1", b)
  \/ \E i \in Ids, b \in EditUpdateBodies : updateWorkout("u1", i, b)

SpecEdit == Init /\ [][NextEdit]_vars

\* searchFood against every outcome of the food database.
MaxProducts == 2

Products ==
  [product_name : {Undef, Str(" "), Str("rice")},
   nutriments : {Undef} \cup
     {Object(n) : n \in [energy_kcal_100g : {Undef, Num(0), Num(130)},
                         energy_100g : {Undef, Num(544)}, proteins_100g : {Num(3)}]}]

Upstreams ==
  {Failure("ECONNABORTED", 0), Failure("ERR_BAD_RESPONSE", 503),
   Failure("ERR_BAD_REQUEST", 429), Failure("ENOTFOUND", 0),
   Reply(Undef), Reply(Object([products |-> Undef]))}
  \cup {Reply(Object([products |-> Object(l)])) :
          l \in UNION {[1..n -> Products] : n \in 0..MaxProducts}}

SearchQueries == {Undef, Str("r"), Str("rice")}

InitSearch ==
  /\ workouts = Empty
  /\ nutrition = Empty
  /\ progress = Empty
  /\ nextId = 1
  /\ inflight = [s \in 1..MaxInflight |-> Idle]
  /\ search = NoSearch
  /\ last \in [op : {"request"}, query : SearchQueries, upstream : Upstreams]

NextSearch == last.op = "request" /\ searchFood(last.query, last.upstream)

SpecSearch == InitSearch /\ [][NextSearch]_vars

\* The daily summary over the entries addNutrition stores.
SummaryNutritionBodies ==
  [food : {Str("apple")}, calories : {Num(100), Num(250)}, protein : {Num(10)},
   carbs : {Undef}, fat : {Undef}, date : Times]

NextSummary ==
  \/ \E u \in Users, b \in SummaryNutritionBodies : addNutrition(u, b)
  \/ \E u \in Users, d \in Times : getDailySummary(u, d)

SpecSummary == Init /\ [][NextSummary]_vars

\* The list requests over the records the create handlers store.
ListWorkoutBodies ==
  [type : {Str("running")}, duration : {Num(30)}, weight : {Undef}, calories : {Num(250)},
   date : Times]

ListProgressBodies == [weight : {Num(70)}, date : Times]

ListNutritionBodies ==
  [food : {Str("apple")}, calories : {Num(100)}, protein : {Undef}, carbs : {Undef},
   fat : {Undef}, date : Times]

NextLists ==
  \/ \E b \in ListWorkoutBodies : setWorkout("u1", b)
  \/ \E b \in ListProgressBodies : addProgress("u1", b)
  \/ \E u \in Users, b \in ListNutritionBodies : addNutrition(u, b)
  \/ \E u \in Users : getWorkoutsRequest(u)
  \/ \E u \in Users : getProgressRequest(u)
  \/ \E u \in Users, d \in {Undef} \cup {DateString(t) : t \in Times} : getNutritionRequest(u, d)

SpecLists == Init /\ [][NextLists]_vars

\* Typing in the food-search input, with the debounce timer and the
\* responses interleaved in any order.
TypedQueries == {"", "a", "ap", "app", "  "}

NextView ==
  \/ \E q \in TypedQueries : handleSearchInputChange(q)
  \/ searchFoodStart
  \/ \E k \in 1..MaxPending, ok \in BOOLEAN : searchFoodResponse(k, ok)

SpecView == Init /\ [][NextView]_vars

\* The overview and the calories per day over workouts dated from a week
\* before today to tomorrow.
WeekToday == 7 * DayLen

WeekWorkoutBodies ==
  [type : {Str("running")}, duration : {Num(30)}, weight : {Undef}, calories : {Num(250)},
   date : {0, DayLen, WeekToday, WeekToday + DayLen}]

WeekNutritionBodies ==
  [food : {Str("apple")}, calories : {Num(100)}, protein : {Undef}, carbs : {Undef},
   fat : {Undef}, date : {WeekToday}]

WeekNows == {WeekToday, WeekToday + DayLen - 1}

NextWeek ==
  \/ \E b \in WeekWorkoutBodies : setWorkout("u1", b)
  \/ \E b \in WeekNutritionBodies : addNutrition("u1", b)
  \/ \E u \in Users, now \in WeekNows : getOverview(u, now)
  \/ \E u \in Users, now \in WeekNows : getCaloriesData(u, now)

SpecWeek == Init /\ [][NextWeek]_vars

\* ------------------------------------------------------------ properties

SameUserDay(i, j) ==
  /\ progress[i].userId = progress[j].userId
  /\ Day(progress[i].date) = Day(progress[j].date)

\* C1: with every addProgress and deleteProgress request run to completion
\* before the next starts, no two stored progress entries have the same user
\* and the same calendar day.
OneEntryPerUserDay ==
  \A i, j \in DOMAIN progress : i # j => ~SameUserDay(i, j)

\* A user holds two entries, on different days, and a further entry on one of
\* those days has just been refused.
TwoDaysThenRefused ==
  /\ last.op = "addProgress"
  /\ last.res = DuplicateEntry
  /\ \E i, j \in DOMAIN progress :
       /\ i # j
       /\ progress[i].userId = last.caller
       /\ progress[j].userId = last.caller

\* C2: in the interleaved specification an addProgress whose findOne found no
\* entry always inserts its document and answers 201, whatever the collection
\* holds by then: nothing at the store refuses a second entry for the same
\* user and day.  (That such a state is reached is the witness.)
CheckedInsertAlwaysStores ==
  [][\A s \in DOMAIN inflight :
       (inflight[s].pc = "insert" /\ inflight'[s].pc # "insert")
         => /\ nextId \in DOMAIN progress'
            /\ nextId \notin DOMAIN progress
            /\ progress'[nextId] = progressDoc(inflight[s].caller, inflight[s].body)
            /\ last'.res.status = 201]_vars

\* Two stored progress entries of one user on one calendar day.
TwoEntriesSameUserDay ==
  \E i, j \in DOMAIN progress : i # j /\ SameUserDay(i, j)

\* C3: an addProgress by a user who already has an entry on the calendar day
\* of the request's date answers with a failure and leaves the progress
\* collection as it was.
DuplicateDayRejected ==
  [][(/\ last'.op = "addProgress"
      /\ \E i \in DOMAIN progress :
           /\ progress[i].userId = last'.caller
           /\ Day(progress[i].date) = Day(last'.body.date))
       => /\ last'.res.status >= 400
          /\ progress' = progress]_vars

\* A duplicate refused although its date is another time of the same day.
SameDayOtherTimeRefused ==
  /\ last.op = "addProgress"
  /\ last.res.status >= 400
  /\ Truthy(last.body.weight)
  /\ \E i \in DOMAIN progress :
       /\ progress[i].userId = last.caller
       /\ Day(progress[i].date) = Day(last.body.date)
       /\ progress[i].date # last.body.date

\* The collection a delete or update request works on.
Target(op) ==
  CASE op \in {"deleteWorkout", "updateWorkout"} -> workouts
    [] op = "deleteNutrition" -> nutrition
    [] op = "deleteProgress" -> progress

Stores == <<workouts, nutrition, progress>>

\* C4: a deleteWorkout, deleteNutrition or deleteProgress on an existing
\* record whose owner is not the caller answers 401 "User not authorized"
\* (neither success nor not-found) and the record stays in the store.
DeleteByNonOwnerRefused ==
  [][(/\ last'.op \in {"deleteWorkout", "deleteNutrition", "deleteProgress"}
      /\ last'.id \in DOMAIN Target(last'.op)
      /\ Target(last'.op)[last'.id].userId # last'.caller)
       => /\ last'.res.status = 401
          /\ last'.res.message = "User not authorized"
          /\ Stores' = Stores]_vars

\* A delete of another user's nutrition entry has been refused.
ForeignDeleteRefused ==
  /\ last.op = "deleteNutrition"
  /\ last.id \in DOMAIN nutrition
  /\ nutrition[last.id].userId # last.caller
  /\ last.res.status = 401

\* C5: for updateWorkout, deleteWorkout, deleteNutrition and deleteProgress,
\* an id that is not in the store answers not-found (400 or 404) and an id of
\* another user's record answers 401, a different status and message; in
\* both cases every collection is unchanged.
MissingAndForeignDiffer ==
  [][last'.op \in {"updateWorkout", "deleteWorkout", "deleteNutrition", "deleteProgress"}
       => /\ last'.id \notin DOMAIN Target(last'.op)
               => /\ last'.res.status \in {400, 404}
                  /\ last'.res.message # "User not authorized"
                  /\ Stores' = Stores
          /\ (/\ last'.id \in DOMAIN Target(last'.op)
              /\ Target(last'.op)[last'.id].userId # last'.caller)
               => /\ last'.res.status = 401
                  /\ last'.res.message = "User not authorized"
                  /\ Stores' = Stores]_vars

\* An updateWorkout of another user's workout, with fields to write, has
\* been refused.
ForeignUpdateRefused ==
  /\ last.op = "updateWorkout"
  /\ last.id \in DOMAIN workouts
  /\ workouts[last.id].userId # last.caller
  /\ Truthy(last.body.type)
  /\ last.res.status = 401

Kept(old, new) == DOMAIN old \cap DOMAIN new

\* C6: no request changes the owner of a stored record.
OwnerNeverChanges ==
  [][/\ \A i \in Kept(workouts, workouts') : workouts'[i].userId = workouts[i].userId
     /\ \A i \in Kept(nutrition, nutrition') : nutrition'[i].userId = nutrition[i].userId
     /\ \A i \in Kept(progress, progress') : progress'[i].userId = progress[i].userId]_vars

\* What a user's list, summary, overview and forecast requests are computed
\* from: the documents the store returns for that user.
View(u) == <<getWorkouts(u), getNutrition(u), getProgress(u)>>

\* C7: a request of one user leaves what every other user reads unchanged
\* (so two runs that differ only in that user's requests answer the other
\* users alike).
OtherUsersViewUnchanged ==
  [][\A u \in Users : last'.caller # u => View(u)' = View(u)]_vars

\* The type strings the coefficient table matches, and the claimed
\* coefficient (times ten) of each.
InTable(t) == t \in {"running", "Running", "WALKING", "cycling", "pushups"}

Coefficient10(t) ==
  CASE t \in {"running", "Running"} -> 98
    [] t = "WALKING" -> 38
    [] t = "cycling" -> 75
    [] t = "pushups" -> 80

\* C8: for a type outside the coefficient table calculateCalories returns no
\* number, whatever the duration and weight, and a setWorkout for such a type
\* without calories answers with a failure and creates no workout.
UnknownTypeNeverDerives ==
  [][/\ (last'.op = "calculateCalories" /\ ~InTable(last'.type.val))
          => last'.result.kind # "num"
     /\ (/\ last'.op = "setWorkout"
         /\ Truthy(last'.body.type)
         /\ ~InTable(last'.body.type.val)
         /\ ~Truthy(last'.body.calories))
          => /\ last'.res.status >= 400
             /\ workouts' = workouts]_vars

\* A setWorkout for an unknown type, with a weight at hand and no calories,
\* has been refused.
UnknownTypeRefused ==
  /\ last.op = "setWorkout"
  /\ last.body.type = Str("constructor")
  /\ Truthy(last.body.duration)
  /\ Truthy(last.body.weight)
  /\ ~Truthy(last.body.calories)
  /\ last.res = CannotCalculate

NonPositive(v) == v.kind = "undef" \/ (IsNum(v) /\ v.val <= 0)

\* C9: calculateCalories returns no number when the duration or the weight is
\* missing, zero or negative, for every type.
NonPositiveInputNeverDerives ==
  (last.op = "calculateCalories" /\ (NonPositive(last.duration) \/ NonPositive(last.weight)))
    => last.result.kind # "num"

Positive(v) == IsNum(v) /\ v.val > 0

\* r = round(m/10 * w * d / 60), halves up.
ExactRound(r, m, w, d) == 600 * r - 300 <= m * w * d /\ m * w * d < 600 * r + 300

\* r is an integer nearest to m/10 * w * d / 60.
Nearest(r, m, w, d) == 600 * r - 300 <= m * w * d /\ m * w * d <= 600 * r + 300

\* calculateCalories has returned a number in relation R to its inputs.
Derived(R(_, _, _, _)) ==
  (/\ last.op = "calculateCalories"
   /\ InTable(last.type.val)
   /\ Positive(last.duration)
   /\ Positive(last.weight))
    => /\ IsNum(last.result)
       /\ R(last.result.val, Coefficient10(last.type.val), last.weight.val,
            last.duration.val)

\* The workout a setWorkout without calories has created holds the request's
\* type and duration, the request's weight or else the caller's latest
\* progress weight, and calories in relation R to them.
Stored(R(_, _, _, _)) ==
  (last.op = "setWorkout" /\ last.res.status = 201 /\ ~Truthy(last.body.calories))
    => LET id == CHOOSE i \in DOMAIN workouts : \A j \in DOMAIN workouts : j <= i
           doc == workouts[id]
           mine == {progress[i] : i \in {j \in DOMAIN progress : progress[j].userId = last.caller}}
       IN  /\ doc.userId = last.caller
           /\ doc.type = last.body.type
           /\ doc.duration = last.body.duration
           /\ IF Truthy(last.body.weight) THEN doc.weight = last.body.weight
              ELSE \E e \in mine : /\ doc.weight = e.weight
                                   /\ \A f \in mine : f.date <= e.date
           /\ InTable(doc.type.val)
           /\ IsNum(doc.calories)
           /\ R(doc.calories.val, Coefficient10(doc.type.val), doc.weight.val,
                doc.duration.val)

\* C10, as claimed: for a type of the table and positive duration and weight
\* calculateCalories returns round(coefficient * weight * duration / 60), and
\* a workout created without calories stores that value.
DerivedCaloriesAreExactRound ==
  Derived(ExactRound) /\ Stored(ExactRound)

\* C10, amended: the value returned, and stored, is an integer nearest to
\* coefficient * weight * duration / 60 (at an exact half it may be the lower
\* one, the product being computed in doubles).
DerivedCaloriesAreNearest ==
  Derived(Nearest) /\ Stored(Nearest)

\* A workout created without calories and without a weight in the request:
\* the weight came from the caller's progress entries.
StoredFromLatestWeight ==
  /\ last.op = "setWorkout"
  /\ last.res.status = 201
  /\ ~Truthy(last.body.calories)
  /\ ~Truthy(last.body.weight)

\* C11: for a type of the coefficient table and positive durations and
\* weights, the value calculateCalories derives does not decrease when the
\* duration grows at a fixed weight, nor when the weight grows at a fixed
\* duration, and equal inputs give equal values.
DerivedCaloriesMonotonic ==
  (last.op = "calculateCaloriesTwice" /\ InTable(last.type.val))
    => LET a == last.first
           b == last.second
       IN  /\ IsNum(a.result) /\ IsNum(b.result)
           /\ (a.weight = b.weight /\ a.duration.val <= b.duration.val)
                => a.result.val <= b.result.val
           /\ (a.duration = b.duration /\ a.weight.val <= b.weight.val)
                => a.result.val <= b.result.val
           /\ (a.duration = b.duration /\ a.weight = b.weight)
                => a.result = b.result

\* Two derivations for running at weight 75, of 137 and of 138 minutes: the
\* longer one has the larger value.
LongerRunBurnsMore ==
  /\ last.op = "calculateCaloriesTwice"
  /\ last.type = Str("running")
  /\ last.first.weight = Num(75) /\ last.second.weight = Num(75)
  /\ last.first.duration = Num(137) /\ last.second.duration = Num(138)
  /\ last.first.result.val < last.second.result.val

\* The caller's progress entries of the latest date.
LatestOf(userId) ==
  LET mine == {i \in DOMAIN progress : progress[i].userId = userId}
  IN  {i \in mine : \A j \in mine : progress[j].date <= progress[i].date}

\* C12: a setWorkout with a type and a duration but neither calories nor a
\* weight answers NO_WEIGHT_DATA and creates nothing when the caller has no
\* progress entry; otherwise the workout it creates holds the weight of one of
\* the caller's own entries of the latest date and the calories derived from
\* that weight, and for a type of the table it does create the workout.
DerivedFromCallersLatestWeight ==
  [][(/\ last'.op = "setWorkout"
      /\ Truthy(last'.body.type) /\ Truthy(last'.body.duration)
      /\ ~Truthy(last'.body.calories) /\ ~Truthy(last'.body.weight))
       => IF LatestOf(last'.caller) = {}
          THEN last'.res = NoWeightData /\ workouts' = workouts
          ELSE /\ last'.res # NoWeightData
               /\ InTable(last'.body.type.val) => last'.res.status = 201
               /\ last'.res.status = 201
                    => /\ DOMAIN workouts' = DOMAIN workouts \cup {nextId}
                       /\ workouts'[nextId].userId = last'.caller
                       /\ \E i \in LatestOf(last'.caller) :
                            /\ workouts'[nextId].weight = progress[i].weight
                            /\ workouts'[nextId].calories =
                                 calculateCalories(last'.body.type, last'.body.duration,
                                                   progress[i].weight)]_vars

\* A workout created from the caller's older-dated and lighter entry while
\* the other user holds a later, heavier one.
OwnWeightUsedNotLaterForeign ==
  /\ last.op = "setWorkout"
  /\ last.res.status = 201
  /\ ~Truthy(last.body.calories)
  /\ \E i, j \in DOMAIN progress, k \in DOMAIN workouts :
       /\ progress[i].userId = last.caller
       /\ progress[j].userId # last.caller
       /\ progress[i].date < progress[j].date
       /\ progress[i].weight = Num(50) /\ progress[j].weight = Num(75)
       /\ workouts[k].userId = last.caller
       /\ workouts[k].weight = Num(50)

\* Some entry of the computation lies on calendar day d.
HasEntryOn(d) == \E t \in last.dates : Day(t) = d

\* C13: currentStreak returns the largest k such that each of the days
\* today, today - 1, ..., today - (k - 1) has an entry: every one of those k
\* days has one and day today - k has none; so it is 0 without entries, 0
\* when today has none (whatever yesterday has) and 1 when today has one and
\* yesterday none, however many entries a day holds.
StreakIsRunOfDaysEndingToday ==
  last.op = "currentStreak"
    => LET today == Day(last.now)
           k == last.result
       IN  /\ k \in Nat
           /\ \A j \in 0..(k - 1) : HasEntryOn(today - j)
           /\ ~HasEntryOn(today - k)
           /\ last.dates = {} => k = 0
           /\ ~HasEntryOn(today) => k = 0
           /\ (HasEntryOn(today) /\ ~HasEntryOn(today - 1)) => k = 1

\* Two entries today, one yesterday, none the day before: a streak of 2.
TwoEntriesTodayCountOnce ==
  /\ last.op = "currentStreak"
  /\ Cardinality({t \in last.dates : Day(t) = Day(last.now)}) = 2
  /\ HasEntryOn(Day(last.now) - 1)
  /\ Day(last.now) >= 2
  /\ ~HasEntryOn(Day(last.now) - 2)
  /\ last.result = 2

\* C14: for non-negative protein, carbohydrate and fat totals whose sum is
\* positive, the three percentages are numbers and sum to 99, 100 or 101.
MacroPercentagesSumNear100 ==
  (last.op = "macroPercentages" /\ last.protein + last.carbs + last.fat > 0)
    => /\ IsNum(last.result.protein) /\ IsNum(last.result.carbs) /\ IsNum(last.result.fat)
       /\ last.result.protein.val + last.result.carbs.val + last.result.fat.val
            \in {99, 100, 101}

\* Totals 23, 17 and 0: the double falls below 57.5 and the percentages are
\* 57, 43 and 0.
HalvesRoundedApart ==
  /\ last.op = "macroPercentages"
  /\ last.protein = 23 /\ last.carbs = 17 /\ last.fat = 0
  /\ last.result = [protein |-> Num(57), carbs |-> Num(43), fat |-> Num(0)]

\* The caller's entries that getMacrosData called at `now` aggregates.
InMacroWindow(userId, now) ==
  {i \in DOMAIN nutrition :
     nutrition[i].userId = userId /\ nutrition[i].date >= now - 7 * DayLen}

\* C15: when the caller has no nutrition entry within the last seven days,
\* or the entries there hold no protein, carbohydrate or fat at all,
\* getMacrosData answers exactly (0, 0, 0): no NaN of a division by zero.
NoMacrosGivesZeros ==
  last.op = "getMacrosData"
    => LET matched == InMacroWindow(last.caller, last.now)
       IN  (\A i \in matched : /\ nutrition[i].protein = Num(0)
                                /\ nutrition[i].carbs = Num(0)
                                /\ nutrition[i].fat = Num(0))
             => last.res = NoMacros

\* The caller holds an entry with macros, but older than a week, and the
\* answer is all zeros.
OnlyOldEntriesGiveZeros ==
  /\ last.op = "getMacrosData"
  /\ InMacroWindow(last.caller, last.now) = {}
  /\ \E i \in DOMAIN nutrition :
       nutrition[i].userId = last.caller /\ nutrition[i].protein = Num(23)
  /\ last.res = NoMacros

\* The caller's progress entries of the last thirty days before `now`.
InLookback(userId, now) ==
  {i \in DOMAIN progress :
     progress[i].userId = userId /\ progress[i].date >= now - 30 * DayLen}

\* C16: when fewer than two progress entries of the caller are dated within
\* the thirty days before the call, getForecast answers prediction null with
\* its message and no trend fields, whatever older entries the caller and
\* whatever entries other users have; with two or more it answers the trends.
FewEntriesGiveNoForecast ==
  last.op = "getForecast"
    => IF Cardinality(InLookback(last.caller, last.now)) < 2
       THEN /\ last.res = NeedTwoEntries
            /\ DOMAIN last.res = {"prediction", "message"}
       ELSE /\ "prediction" \notin DOMAIN last.res
            /\ last.res.dataPoints = Cardinality(InLookback(last.caller, last.now))

\* The caller has two entries, only one of them within the thirty days, the
\* other user has one within them too, and the answer is prediction null.
OldAndForeignEntriesNotCounted ==
  /\ last.op = "getForecast"
  /\ last.res = NeedTwoEntries
  /\ Cardinality(InLookback(last.caller, last.now)) = 1
  /\ Cardinality({i \in DOMAIN progress : progress[i].userId = last.caller}) = 2
  /\ \E i \in DOMAIN progress :
       progress[i].userId # last.caller /\ progress[i].date >= last.now - 30 * DayLen

RECURSIVE SeqSum(_)
SeqSum(seq) == IF seq = <<>> THEN 0 ELSE Head(seq) + SeqSum(Tail(seq))

\* (n * Sum(xy) - Sum(x) * Sum(y)) / (n * Sum(x^2) - Sum(x)^2) for the
\* points <<0, ys[1]>>, ..., <<n - 1, ys[n]>>, as numerator and denominator.
Ols(ys) ==
  LET n == Len(ys)
      sumX == (n * (n - 1)) \div 2
      sumX2 == ((n - 1) * n * (2 * n - 1)) \div 6
      sumY == SeqSum(ys)
      sumXY == SeqSum([i \in 1..n |-> (i - 1) * ys[i]])
  IN  [num |-> n * sumXY - sumX * sumY, den |-> n * sumX2 - sumX * sumX]

\* v is a decimal with `units` units per kilogram nearest to k * num / den
\* kilograms, den > 0.
NearestDecimal(v, units, k, num, den) ==
  IsNum(v) /\ 2 * Abs(units * k * num - v.val * den) <= den

\* The sequences of the ids `ids` of progress in ascending date order.
Chronological(ids) ==
  {order \in [1..Cardinality(ids) -> ids] :
     /\ {order[k] : k \in DOMAIN order} = ids
     /\ \A k \in 1..(Cardinality(ids) - 1) :
          progress[order[k]].date <= progress[order[k + 1]].date}

SlopeDenominatorPositive ==
  (last.op = "forecast" /\ Len(last.weightData) >= 2)
    => /\ last.slope.den = Ols(last.weightData).den
       /\ last.slope.den > 0

\* A slope over the largest number of samples.
SlopeOverMostSamples ==
  /\ last.op = "forecast"
  /\ Len(last.weightData) = MaxSamples
  /\ last.slope.den >= 20

\* C19: with two or more samples the message of the forecast is of exactly
\* one class: stable when |weeklyChange| < 0.1, gaining when weeklyChange >=
\* 0.1, losing when weeklyChange <= -0.1 (weeklyChange = 7 * slope, in
\* kilograms); the answer carries the weekly and the monthly change to two
\* decimals in every class, and a gaining or losing message the size of the
\* monthly change to one decimal.
TrendClassifiedByWeeklyChange ==
  (last.op = "forecast" /\ Len(last.weightData) >= 2)
    => LET line == Ols(last.weightData)
           num == 7 * line.num
           den == 10 * line.den
           class == last.res.message.trend
       IN  /\ class \in {"stable", "gain", "lose"}
           /\ class = "stable" <=> 10 * Abs(num) < den
           /\ class = "gain" <=> 10 * num >= den
           /\ class = "lose" <=> 10 * num <= -den
           /\ NearestDecimal(last.res.weeklyTrend, 100, 7, line.num, 10 * line.den)
           /\ NearestDecimal(last.res.monthlyTrend, 100, 30, line.num, 10 * line.den)
           /\ class # "stable"
                => NearestDecimal(last.res.message.amount, 10, 30, Abs(line.num),
                                  10 * line.den)

\* A weekly change of 0.07 kg is stable, and the answer carries it.
SmallChangeIsStable ==
  /\ last.op = "forecast"
  /\ Len(last.weightData) >= 2
  /\ last.res.message.trend = "stable"
  /\ last.res.weeklyTrend = Num(7)

\* The caller's workouts of the last getOverview, and their calories summed.
CallersWorkouts == {i \in DOMAIN workouts : workouts[i].userId = last.caller}

RECURSIVE CaloriesOf(_)
CaloriesOf(ids) ==
  IF ids = {} THEN 0
  ELSE LET i == CHOOSE j \in ids : TRUE
       IN  (IF IsNum(workouts[i].calories) THEN workouts[i].calories.val ELSE 0)
             + CaloriesOf(ids \ {i})

\* The caller has an entry of the collection on each of the seven days up
\* to the day of the call.
SevenDays(coll) ==
  \A k \in 0..6 :
    \E i \in DOMAIN coll :
      coll[i].userId = last.caller /\ Day(coll[i].date) = Day(last.now) - k

\* C20: whatever workouts and nutrition entries have been created, updated
\* and deleted, the earned flag of every badge getOverview answers is its
\* predicate on the records the caller holds now; so a badge is not earned
\* once deletions have made its predicate false.
BadgesFollowCurrentRecords ==
  last.op = "getOverview"
    => LET earned == last.res.badges
       IN  /\ earned.first_workout <=> Cardinality(CallersWorkouts) >= 1
           /\ earned.ten_workouts <=> Cardinality(CallersWorkouts) >= 10
           /\ earned.streak_7 <=> SevenDays(workouts)
           /\ earned.burn_5000 <=> CaloriesOf(CallersWorkouts) >= 5000
           /\ earned.log_7 <=> SevenDays(nutrition)

\* The first user, who held ten workouts, asks today with nine left: only
\* first_workout and log_7 are earned.
BadgesLostAfterDelete ==
  /\ last.op = "getOverview"
  /\ last.caller = "u1"
  /\ last.now < BadgeToday + DayLen
  /\ Cardinality(CallersWorkouts) = 9
  /\ last.res.badges = [first_workout |-> TRUE, ten_workouts |-> FALSE,
                         streak_7 |-> FALSE, burn_5000 |-> FALSE, log_7 |-> TRUE]

\* The addNutrition of this step has stored its entry.
NutritionCreated ==
  /\ last'.res.status = 201
  /\ DOMAIN nutrition' = DOMAIN nutrition \cup {nextId}
  /\ nextId \notin DOMAIN nutrition

\* A label that is not blank and has at most 200 characters.
GoodLabel(food) == Truthy(food) /\ trim(food.val) # "" /\ length(food.val) <= 200

\* C21: for a label that is not blank and at most 200 characters long,
\* addNutrition creates an entry when the calories are a number in 0..10000
\* (0 included) and creates none when they are a number outside it.
CaloriesRangeAccepted ==
  [][(/\ last'.op = "addNutrition"
      /\ GoodLabel(last'.body.food)
      /\ IsNum(last'.body.calories))
       => IF last'.body.calories.val >= 0 /\ last'.body.calories.val <= 10000
          THEN NutritionCreated
          ELSE nutrition' = nutrition /\ last'.res.status >= 400]_vars

\* C27: an addNutrition whose label and calories pass the checks stores its
\* entry whether or not the calories differ from 4 * protein + 4 * carbs +
\* 9 * fat by more than 20%: the hook warns and nothing else.
InconsistentMacrosStillStored ==
  [][(/\ last'.op = "addNutrition"
      /\ GoodLabel(last'.body.food)
      /\ IsNum(last'.body.calories)
      /\ last'.body.calories.val >= 1 /\ last'.body.calories.val <= 10000)
       => /\ NutritionCreated
          /\ nutrition'[nextId].calories = last'.body.calories
          /\ nutrition'[nextId].protein = validatedMacro(last'.body.protein)
          /\ last'.warned
               <=> (/\ Truthy(last'.body.protein)
                    /\ 5 * Abs(last'.body.calories.val - 4 * last'.body.protein.val)
                         > last'.body.calories.val)]_vars

\* An entry of 1 calorie with 100 g of protein has been stored, with the
\* warning.
WarnedEntryStored ==
  /\ last.op = "addNutrition"
  /\ last.res.status = 201
  /\ last.warned
  /\ \E i \in DOMAIN nutrition :
       nutrition[i].calories = Num(1) /\ nutrition[i].protein = Num(100)

\* C22: every stored workout has a duration of at least 1, whatever
\* setWorkout and updateWorkout requests have been answered.
StoredDurationAtLeastOne ==
  \A i \in DOMAIN workouts :
    IsNum(workouts[i].duration) /\ workouts[i].duration.val >= 1

\* C29: after an updateWorkout answered 200 whose body carries a type, a
\* duration or a weight and no calories, the stored calories are
\* calculateCalories of the stored type, duration and weight when that is a
\* number (the weight stored being the owner's latest progress weight when
\* neither the body nor the workout had one), and the calories stored before
\* when it is not.
UpdateRecalculatesCalories ==
  [][(/\ last'.op = "updateWorkout"
      /\ last'.res.status = 200
      /\ last'.body.calories = Undef
      /\ \/ last'.body.type # Undef
         \/ last'.body.duration # Undef
         \/ last'.body.weight # Undef)
       => LET before == workouts[last'.id]
              after == workouts'[last'.id]
              derived == calculateCalories(after.type, after.duration, after.weight)
          IN  IF IsNum(derived) THEN after.calories = derived
              ELSE after.calories = before.calories]_vars

\* C23: an addProgress request whose weight is missing or outside 20..500
\* is answered with a validation failure (a 4xx status, never the 500 of
\* the internal-server-error outcome) and creates no entry.
InvalidWeightIsValidationFailure ==
  [][(/\ last'.op = "addProgress"
      /\ ~progressValid(last'.body))
       => /\ last'.res.status >= 400
          /\ last'.res.status < 500
          /\ progress' = progress]_vars

\* C24: whenever the call of the food database fails (a timeout, a 5xx
\* status, any other request error, or a reply without a product list),
\* searchFood has made that one call only and answers with the offline marker
\* set and a message asking to enter the data manually.
UpstreamFailed ==
  /\ last.op = "searchFood"
  /\ last.calls > 0
  /\ \/ last.upstream.code # ""
     \/ ~Truthy(last.upstream.data)
     \/ ~Truthy(last.upstream.data.val.products)

FailedLookupAnswersOffline ==
  UpstreamFailed =>
    /\ last.calls = 1
    /\ last.res.offline
    /\ last.res \in {TimedOut, Unavailable, SearchFailed}

\* C25: the daily summary answered for a caller and a date holds the sums
\* of calories, protein, carbs and fat over exactly the caller's entries
\* dated on that calendar day, and their number as entries (all 0 when
\* there are none).
EntriesOfDay(userId, date) ==
  {i \in DOMAIN nutrition :
     nutrition[i].userId = userId /\ Day(nutrition[i].date) = Day(date)}

DailySummaryCoversTheDay ==
  last.op = "getDailySummary" =>
    LET ofDay == EntriesOfDay(last.caller, last.date)
    IN  /\ last.res.calories = sumField(nutrition, ofDay, "calories")
        /\ last.res.protein = sumField(nutrition, ofDay, "protein")
        /\ last.res.carbs = sumField(nutrition, ofDay, "carbs")
        /\ last.res.fat = sumField(nutrition, ofDay, "fat")
        /\ last.res.entries = Cardinality(ofDay)

\* C26: getWorkouts, getNutrition and getProgress answer exactly the
\* caller's records (getNutrition with a date: the caller's entries dated on
\* that calendar day), each once, with the date of every record at least
\* the date of the record after it.
Listed(coll, expected) ==
  LET list == last.res.list
  IN  /\ {list[k].id : k \in DOMAIN list} = expected
      /\ Len(list) = Cardinality(expected)
      /\ \A k \in DOMAIN list : list[k].doc = coll[list[k].id]
      /\ \A k \in 1..(Len(list) - 1) : list[k].doc.date >= list[k + 1].doc.date

ListsAreCallersRecordsNewestFirst ==
  /\ last.op = "getWorkouts" =>
        Listed(workouts, {i \in DOMAIN workouts : workouts[i].userId = last.caller})
  /\ last.op = "getProgress" =>
        Listed(progress, {i \in DOMAIN progress : progress[i].userId = last.caller})
  /\ last.op = "getNutrition" =>
        Listed(nutrition,
               {i \in DOMAIN nutrition :
                  /\ nutrition[i].userId = last.caller
                  /\ last.date # Undef => Day(nutrition[i].date) = Day(last.date.val)})

\* C28: a response to a query other than the one typed last never changes
\* the results shown, and while the query typed last is shorter than 2
\* characters no response makes results appear.
StaleResponseChangesNothing ==
  [][(/\ last'.op = "searchFoodResponse"
      /\ last'.query # search.searchQuery)
       => /\ search'.searchResults = search.searchResults
          /\ search'.showSearchResults = search.showSearchResults]_vars

\* C30: when the overview and then the calories per day are asked for by
\* the same user at the same moment, the overview's weeklyCaloriesBurned is
\* the sum of the seven daily burned values.
WeeklyBurnedIsSumOfDailyBurned ==
  [][(/\ last.op = "getOverview"
      /\ last'.op = "getCaloriesData"
      /\ last'.caller = last.caller
      /\ last'.now = last.now)
       => last.res.weeklyCaloriesBurned
            = SeqSum([k \in 1..7 |-> last'.res[k].burned])]_vars

====
